---- MODULE Spec2Model ----
(***************************************************************************)
(* Kernel session manager of src/node/index.js: the table kernelClients,   *)
(* the readiness promise stored per instance id, the per-session request   *)
(* handlers and the forwarding of client events to the browser window.     *)
(*                                                                         *)
(* JavaScript values are modelled by what the code observes of them: an    *)
(* options object is a function from its own property names to the typeof  *)
(* of each value; a promise is its bluebird state.                          *)
(***************************************************************************)
EXTENDS Naturals, Sequences, FiniteSets, TLC

\* ------------------------------------------------------------------ bounds
MaxSessions == 1
MaxCalls == 2
MaxEvents == 2
MaxDisplays == 1
MaxIsolationCalls == 1
MaxSaved == 2

\* -------------------------------------------------------------- JS values
\* cuid() is a library call; its ids are taken never to repeat: the n-th draw
\* is CuidSeq[n].
CuidSeq == <<"cuid1", "cuid2", "cuid3", "cuid4">>

InstanceIds == {CuidSeq[n] : n \in 1..MaxSessions}

\* One more id than that, for the runs in which sessions live side by side.
SessionCap == MaxSessions + 1

AllIds == {CuidSeq[n] : n \in 1..SessionCap}

\* kernelClients is an object literal, so kernelClients[id] also finds the
\* properties inherited from Object.prototype; "constructor" stands for them.
ObjectPrototypeKeys == {"constructor"}

RequestIds == InstanceIds \cup ObjectPrototypeKeys

\* Options objects a caller may send: own property name |-> typeof value.
OptionObjects ==
  { [cmd |-> "string"],
    [cmd |-> "string", cwd |-> "string"],
    <<>>,
    [cwd |-> "string"],
    [cmd |-> "number"],
    [cmd |-> "string", cwd |-> "number"],
    [cmd |-> "string", env |-> "object"] }

\* The definition object both onCheckKernel and onCreateKernelInstance pass.
KernelOptionsDefinition ==
  [cmd |-> [type |-> "string", isRequired |-> TRUE],
   cwd |-> [type |-> "string"]]

ValidatorTypes == {"string", "object", "number", "boolean"}

\* obj[key] on a JS object: "undefined" when the property is absent.
TypeOfProperty(obj, key) == IF key \in DOMAIN obj THEN obj[key] ELSE "undefined"

\* definition.required as assertValidObject reads it: undefined is falsy.
DefinitionRequired(definition) ==
  IF "required" \in DOMAIN definition THEN definition["required"] ELSE FALSE

\* A validation that would not look for properties outside validOptions.
assertValidObjectAllowingOthers(obj, validOptions) ==
  \A key \in DOMAIN validOptions :
    LET definition == validOptions[key]
        value == TypeOfProperty(obj, key)
    IN /\ ~(DefinitionRequired(definition) /\ value = "undefined")
       /\ ~(value # "undefined" /\ value # definition["type"])

\* assertValidObject returns normally (TRUE) or throws (FALSE).
assertValidObject(obj, validOptions) ==
  /\ (DOMAIN obj) \ (DOMAIN validOptions) = {}
  /\ \A key \in DOMAIN validOptions :
       LET definition == validOptions[key]
           value == TypeOfProperty(obj, key)
           expectedType == definition["type"]
           isRequired == DefinitionRequired(definition)
       IN /\ expectedType \in ValidatorTypes
          /\ ~(isRequired /\ value = "undefined")
          /\ ~(value # "undefined" /\ value # expectedType)

\* ---------------------------------------------------------------- requests
SessionOps == {"execute", "executeHidden", "getAutoComplete", "isComplete",
               "getInspection", "getStatus", "interrupt", "eval"}
Ops == SessionOps \cup {"kill"}

\* The text argument of execute: "" is falsy, "code" is not.
Texts == {"", "code"}

\* ------------------------------------------------------------------- state
VARIABLES
  kernelClients,  \* own properties of the table: instance id |-> its promise
  readiness,      \* state of the promise created for each instance id
  branches,       \* bluebird's count of un-cancelled consumers of that promise
  client,         \* life of the python client created for each instance id
  createCalls,    \* kernelsPythonClient.create invocations per instance id
  cuidCount,      \* cuid() draws so far
  lastCreate,     \* the most recent onCreateKernelInstance call and its result
  calls,          \* the per-session requests issued so far, in order
  readyEmitted,   \* instance ids whose client has emitted 'ready'
  createRejected, \* instance ids whose create() chain is rejected, its catch due
  emitted,        \* events the clients emitted to the window subscription, in order
  transform,      \* per emitted event: its data object, its saves, how far it has got
  sendQueue,      \* the promise callbacks that are due, in the order they will run
  forwarded,      \* browserWindows.send calls made, in order
  urls,           \* plotServerInstance.urls: the routes registered, in order
  lastSave        \* the most recent onSavePlot call and what it did

sessionVars == <<kernelClients, readiness, branches, client, createCalls, cuidCount,
                 lastCreate, readyEmitted, createRejected>>
eventVars == <<emitted, transform, sendQueue, forwarded, urls, lastSave>>
vars == <<sessionVars, calls, eventVars>>

NoCreate == [options |-> <<>>, outcome |-> "none", id |-> ""]

\* No temporary file was handed to files.copy.
NoFile == <<>>

NoSave == [url |-> "", outcome |-> "none", file |-> NoFile]

Init ==
  /\ kernelClients = <<>>
  /\ readiness = [id \in AllIds |-> "none"]
  /\ branches = [id \in AllIds |-> 0]
  /\ client = [id \in AllIds |-> "none"]
  /\ createCalls = [id \in AllIds |-> 0]
  /\ cuidCount = 0
  /\ lastCreate = NoCreate
  /\ calls = <<>>
  /\ readyEmitted = {}
  /\ createRejected = {}
  /\ emitted = <<>>
  /\ transform = <<>>
  /\ sendQueue = <<>>
  /\ forwarded = <<>>
  /\ urls = <<>>
  /\ lastSave = NoSave

\* delete kernelClients[id]
DeleteKey(table, id) == [k \in (DOMAIN table) \ {id} |-> table[k]]

\* kernelClients[id] = promise
SetKey(table, id, promise) ==
  [k \in (DOMAIN table) \cup {id} |-> IF k = id THEN promise ELSE table[k]]

\* What kernelClients[id] evaluates to: the stored promise, an inherited
\* member of Object.prototype, or undefined.
Lookup(id) ==
  IF id \in DOMAIN kernelClients THEN [kind |-> "promise", of |-> kernelClients[id]]
  ELSE IF id \in ObjectPrototypeKeys THEN [kind |-> "inherited", of |-> id]
  ELSE [kind |-> "undefined", of |-> id]

\* ------------------------------------------------- onCreateKernelInstance
\* A handler that would yield the id without having stored the promise.
CreateAcceptedUnregistered(options) ==
  /\ cuidCount < SessionCap
  /\ LET instanceId == CuidSeq[cuidCount + 1] IN
       /\ cuidCount' = cuidCount + 1
       /\ readiness' = [readiness EXCEPT ![instanceId] = "pending"]
       /\ client' = [client EXCEPT ![instanceId] = "creating"]
       /\ createCalls' = [createCalls EXCEPT ![instanceId] = @ + 1]
       /\ lastCreate' = [options |-> options, outcome |-> "id", id |-> instanceId]
  /\ UNCHANGED <<kernelClients, branches, calls, readyEmitted, createRejected, eventVars>>

\* options passed validation: draw an id, store the pending promise, start
\* kernelsPythonClient.create(options), resolve the returned promise with id.
CreateAccepted(options) ==
  /\ cuidCount < SessionCap
  /\ LET instanceId == CuidSeq[cuidCount + 1] IN
       /\ cuidCount' = cuidCount + 1
       /\ kernelClients' = SetKey(kernelClients, instanceId, instanceId)
       /\ readiness' = [readiness EXCEPT ![instanceId] = "pending"]
       /\ client' = [client EXCEPT ![instanceId] = "creating"]
       /\ createCalls' = [createCalls EXCEPT ![instanceId] = @ + 1]
       /\ lastCreate' = [options |-> options, outcome |-> "id", id |-> instanceId]
  /\ UNCHANGED <<branches, calls, readyEmitted, createRejected, eventVars>>

\* assertValidObject threw: nothing else of the handler runs.
CreateRefused(options) ==
  /\ lastCreate' = [options |-> options, outcome |-> "InvalidArgument", id |-> ""]
  /\ UNCHANGED <<kernelClients, readiness, branches, client, createCalls,
                 cuidCount, calls, readyEmitted, createRejected, eventVars>>

onCreateKernelInstance(options) ==
  IF assertValidObject(options, KernelOptionsDefinition)
  THEN CreateAccepted(options)
  ELSE CreateRefused(options)

\* -------------------------------------------------------- event forwarding
\* The payload fields displayDataTransform moves to temporary files.
Fields == {"text/html", "image/png", "image/svg"}

Extension(field) ==
  CASE field = "text/html" -> ".html"
    [] field = "image/png" -> ".png"
    [] field = "image/svg" -> ".svg"

\* The n-th route plotServerInstance.addRouteToFile hands out.
RouteSeq == <<"/tmp1", "/tmp2", "/tmp3", "/tmp4", "/tmp5", "/tmp6",
              "/tmp7", "/tmp8", "/tmp9", "/tmp10", "/tmp11", "/tmp12">>

\* An argument a client passes to its listeners, as displayDataTransform reads
\* it: result.msg_type, whether result.content.data is there, and its members.
Message(type, hasData, data) == [msg_type |-> type, hasData |-> hasData, data |-> data]

\* The (code, signal) arguments of 'close' carry no result.
CloseArgs == Message("none", FALSE, <<>>)

Messages ==
  { Message("status", FALSE, <<>>),
    Message("display_data", FALSE, <<>>),
    Message("display_data", TRUE, [x \in {"image/png"} |-> "aGk="]),
    Message("display_data", TRUE, [x \in {"text/html", "image/png"} |->
                                     IF x = "image/png" THEN "aGk=" ELSE "<p>"]),
    Message("display_data", TRUE, [x \in {"text/html"} |-> ""]),
    Message("display_data", TRUE, [x \in {"image/svg"} |-> "<svg>"]),
    Message("execute_result", TRUE, [x \in {"text/html"} |-> "<p>"]) }

\* The event names subscribeWindowToKernelEvents forwards besides 'close'.
EventNames == {"iopub", "shell"}

\* A string is falsy only when empty; a Buffer never is.
Truthy(value) == value # ""

\* The Buffers that occur.
Buffers == {"buffer:hi", "buffer:", "buffer:?"}

\* new Buffer(value, 'base64'): the bytes of a text, kept apart from any
\* string; a copy of the bytes when the value is a Buffer already.
Base64Decode(value) ==
  CASE value = "aGk=" -> "buffer:hi"
    [] value = "" -> "buffer:"
    [] value \in Buffers -> value
    [] OTHER -> "buffer:?"

\* The data object once the synchronous part of displayDataTransform has run.
DecodedData(msg) ==
  IF msg.msg_type = "display_data" /\ msg.hasData
  THEN [f \in DOMAIN msg.data |->
          IF f = "image/png" /\ Truthy(msg.data[f])
          THEN Base64Decode(msg.data[f]) ELSE msg.data[f]]
  ELSE msg.data

\* A transform that would not look at msg_type before replacing fields.
SavesStartedForAnyType(msg) ==
  IF msg.hasData THEN {f \in Fields \cap DOMAIN msg.data : Truthy(msg.data[f])} ELSE {}

\* The fields for which replacePropertyWithTemporaryFile starts a save.
SavesStarted(msg) ==
  IF msg.msg_type = "display_data" /\ msg.hasData
  THEN {f \in Fields \cap DOMAIN msg.data : Truthy(DecodedData(msg)[f])}
  ELSE {}

\* A callback due in bluebird's queue: the event it belongs to, the field whose
\* save it follows ("" when it follows the whole transform), which callback it
\* is, and whether the promise it hangs on was fulfilled.
\*   "saved"       the promise of files.saveToTemporaryFile settles: the
\*                 then-callback of replacePropertyWithTemporaryFile
\*   "replaced"    the promise of replacePropertyWithTemporaryFile settles into
\*                 the bluebird.all of displayDataTransform
\*   "settling"    the then-callback displayDataTransform chained on bluebird.all
\*   "queued"      the then-callback of the listener: the send
\* and, once a save of the event was rejected, the rejection on its way:
\*   "all"         the bluebird.all of displayDataTransform settles
\*   "transformed" the promise displayDataTransform returned settles into the
\*                 bluebird.all of the listener
\*   "list"        the bluebird.all of the listener settles
\*   "caught"      the promise of .then(send) settles: the catch-callback
Job(e, field, due, ok) == [event |-> e, field |-> field, due |-> due, ok |-> ok]

\* The transforms once the data object of the given emission holds data:
\* every emission of that object sees it.
Shared(t, object, data) ==
  [k \in DOMAIN t |-> IF t[k].object = object THEN [t[k] EXCEPT !.data = data] ELSE t[k]]

\* What is kept of an emission: the data object as it stands, the object it
\* is (the emission that first carried it), the content handed to
\* files.saveToTemporaryFile for each field, the saves not settled, the saves
\* bluebird.all has not been told of, and how far the event has got.
Emission(msg, object, saving, state) ==
  [data |-> DecodedData(msg), content |-> DecodedData(msg), object |-> object,
   pending |-> saving, saving |-> saving, state |-> state]

\* The callback that is due for an event of which no save was started: for a
\* display_data event with data, the then-callback displayDataTransform
\* chained on bluebird.all, which was fulfilled at once ("settling"); for any
\* other event, which comes as bluebird.resolve(event), the send ("queued").
CallbackDue(msg) ==
  IF msg.msg_type = "display_data" /\ msg.hasData THEN "settling" ELSE "queued"

\* The listener subscribeBrowserWindowToEvent registered runs for an event
\* whose argument is the given object.
Deliver(id, name, msg, object) ==
  LET e == Len(emitted) + 1
      saving == SavesStarted(msg)
  IN /\ emitted' = Append(emitted, [id |-> id, name |-> name, msg |-> msg])
     /\ transform' = Append(Shared(transform, object, DecodedData(msg)),
                            Emission(msg, object, saving,
                                     IF saving = {} THEN CallbackDue(msg) ELSE "saving"))
     /\ sendQueue' = IF saving = {}
                     THEN Append(sendQueue, Job(e, "", CallbackDue(msg), TRUE))
                     ELSE sendQueue
     /\ UNCHANGED <<forwarded, urls, lastSave>>

\* An event no listener of the window is registered for: nothing runs.
Unheard(id, name, msg, object) ==
  /\ emitted' = Append(emitted, [id |-> id, name |-> name, msg |-> msg])
  /\ transform' = Append(transform,
                         [data |-> msg.data, content |-> msg.data, object |-> object,
                          pending |-> {}, saving |-> {}, state |-> "unheard"])
  /\ UNCHANGED <<sendQueue, forwarded, urls, lastSave>>

\* A subscription that would be made in the handler of 'ready'.
SubscribedOnReady(id) == client[id] \in {"ready", "closed"}

\* subscribeWindowToKernelEvents has run for the client of a session: it is
\* called in the then-callback of create(), with the handlers of 'ready' and
\* 'close', whatever the client has emitted.
Subscribed(id) == client[id] \in {"created", "ready", "closed"}

\* The client emits an event with the given object as argument.
Emits(id, name, msg, object) ==
  IF Subscribed(id)
  THEN Deliver(id, name, msg, object)
  ELSE Unheard(id, name, msg, object)

\* A client that exists emits one of the forwarded events with a new object.
EmitEvent(id, name, msg) ==
  /\ client[id] \in {"created", "ready"}
  /\ Cardinality({e \in DOMAIN emitted : emitted[e].name # "close"}) < MaxEvents
  /\ Emits(id, name, msg, Len(emitted) + 1)
  /\ UNCHANGED <<sessionVars, calls>>

\* plotServerInstance.addRouteToFile(filepath, route): the file is registered
\* under the next route, which nothing else is registered under.
addRouteToFile(table, file) == Append(table, file)

\* The then-callback of replacePropertyWithTemporaryFile for a field of an
\* event: the file, which holds what the field held when the save was
\* started, is registered under a new route and the field of the object
\* rewritten.
Registered(e, field) ==
  addRouteToFile(urls, [extension |-> Extension(field),
                        content |-> transform[e].content[field],
                        file |-> <<e, field>>])

Replaced(t, e, field) ==
  [k \in DOMAIN t |->
     IF t[k].object = t[e].object
     THEN [t[k] EXCEPT !.data[field] = RouteSeq[Len(urls) + 1]]
     ELSE t[k]]

\* The promise of replacePropertyWithTemporaryFile for a field settles into the
\* bluebird.all of displayDataTransform.  With the last fulfilment bluebird.all
\* is fulfilled and, neither it nor the listener's having been settled when
\* made, the callbacks chained on them run in the same turn: the event is
\* sent.  With the first rejection bluebird.all is rejected, which every
\* promise after it learns in a turn of its own.
AllSettles(t, e, field, ok) ==
  LET left == t[e].saving \ {field} IN
    [t EXCEPT ![e].saving = left,
              ![e].state = IF @ # "saving" THEN @
                           ELSE IF ~ok THEN "rejected"
                           ELSE IF left = {} THEN "sent" ELSE @]

\* browserWindows.send calls once the transform of e has gone from t0 to t.
Sends(t0, t, e) ==
  IF t0[e].state # "sent" /\ t[e].state = "sent"
  THEN Append(forwarded, [event |-> e, data |-> t[e].data])
  ELSE forwarded

\* The promise of files.saveToTemporaryFile settles.  When a node callback
\* fulfils it (a promisified call), bluebird runs the callbacks chained on it
\* within that call; a rejection, and a fulfilment from anywhere else, is
\* queued.
SaveSettles(e, field, ok, guaranteed) ==
  /\ e \in DOMAIN transform
  /\ field \in transform[e].pending
  /\ LET settled == [transform EXCEPT ![e].pending = @ \ {field}] IN
       IF guaranteed /\ ok
       THEN /\ Len(urls) < Len(RouteSeq)
            /\ LET told == AllSettles(Replaced(settled, e, field), e, field, TRUE)
               IN /\ transform' = told
                  /\ forwarded' = Sends(transform, told, e)
            /\ urls' = Registered(e, field)
            /\ UNCHANGED sendQueue
       ELSE /\ transform' = settled
            /\ sendQueue' = Append(sendQueue, Job(e, field, "saved", ok))
            /\ UNCHANGED <<forwarded, urls>>
  /\ UNCHANGED <<sessionVars, calls, emitted, lastSave>>

\* The then-callback of replacePropertyWithTemporaryFile runs: the route is
\* registered and the field rewritten; the promise it fulfils reaches
\* bluebird.all in a later turn.
SaveDone ==
  /\ sendQueue # <<>>
  /\ Head(sendQueue).due = "saved"
  /\ Head(sendQueue).ok
  /\ Len(urls) < Len(RouteSeq)
  /\ LET job == Head(sendQueue) IN
       /\ urls' = Registered(job.event, job.field)
       /\ transform' = Replaced(transform, job.event, job.field)
       /\ sendQueue' = Append(Tail(sendQueue), Job(job.event, job.field, "replaced", TRUE))
  /\ UNCHANGED <<sessionVars, calls, emitted, forwarded, lastSave>>

\* A save whose rejection would be swallowed: the event is sent all the same.
SaveFailsStillSends ==
  /\ sendQueue # <<>>
  /\ Head(sendQueue).due = "saved"
  /\ ~Head(sendQueue).ok
  /\ LET job == Head(sendQueue) IN
       sendQueue' = Append(Tail(sendQueue), Job(job.event, job.field, "replaced", TRUE))
  /\ UNCHANGED <<sessionVars, calls, emitted, transform, forwarded, urls, lastSave>>

\* The save was rejected: the then-callback is passed over and the promise of
\* replacePropertyWithTemporaryFile is rejected in its turn.
SaveFails ==
  /\ sendQueue # <<>>
  /\ Head(sendQueue).due = "saved"
  /\ ~Head(sendQueue).ok
  /\ LET job == Head(sendQueue) IN
       sendQueue' = Append(Tail(sendQueue), Job(job.event, job.field, "replaced", FALSE))
  /\ UNCHANGED <<sessionVars, calls, emitted, transform, forwarded, urls, lastSave>>

\* bluebird.all of displayDataTransform is told of the promise of a field:
\* the event is sent when every save has fulfilled; when this one is the first
\* that was rejected, the rejection of bluebird.all is queued.
ReplaceSettles ==
  /\ sendQueue # <<>>
  /\ Head(sendQueue).due = "replaced"
  /\ LET job == Head(sendQueue)
         told == AllSettles(transform, job.event, job.field, job.ok)
     IN /\ transform' = told
        /\ forwarded' = Sends(transform, told, job.event)
        /\ sendQueue' = IF transform[job.event].state # "rejected"
                           /\ told[job.event].state = "rejected"
                        THEN Append(Tail(sendQueue), Job(job.event, "", "all", FALSE))
                        ELSE Tail(sendQueue)
  /\ UNCHANGED <<sessionVars, calls, emitted, urls, lastSave>>

\* The promise that learns of a rejection after the given one.
RejectionReaches(due) ==
  CASE due = "all" -> "transformed"
    [] due = "transformed" -> "list"
    [] due = "list" -> "caught"

\* A rejected promise between the save and the catch settles: the callbacks
\* chained with then (the return of the event, the send) are passed over and
\* the next promise is rejected, which it learns in a later turn.
RejectionPasses ==
  /\ sendQueue # <<>>
  /\ Head(sendQueue).due \in {"all", "transformed", "list"}
  /\ LET job == Head(sendQueue) IN
       sendQueue' = Append(Tail(sendQueue),
                           Job(job.event, "", RejectionReaches(job.due), FALSE))
  /\ UNCHANGED <<sessionVars, calls, emitted, transform, forwarded, urls, lastSave>>

\* The catch-callback of the listener runs: the error is logged, and nothing
\* is sent for the event.
ErrorLogged ==
  /\ sendQueue # <<>>
  /\ Head(sendQueue).due = "caught"
  /\ transform' = [transform EXCEPT ![Head(sendQueue).event].state = "dropped"]
  /\ sendQueue' = Tail(sendQueue)
  /\ UNCHANGED <<sessionVars, calls, emitted, forwarded, urls, lastSave>>

\* The then-callback displayDataTransform chained on a bluebird.all that was
\* fulfilled when it was made runs and returns the event: the listener's
\* bluebird.all settles in its turn, so the send comes after every callback
\* that was already due.
TransformSettles ==
  /\ sendQueue # <<>>
  /\ Head(sendQueue).due = "settling"
  /\ LET job == Head(sendQueue) IN
       /\ sendQueue' = Append(Tail(sendQueue), Job(job.event, "", "queued", TRUE))
       /\ transform' = [transform EXCEPT ![job.event].state = "queued"]
  /\ UNCHANGED <<sessionVars, calls, emitted, forwarded, urls, lastSave>>

\* The then-callback of the listener's bluebird.all runs: browserWindows.send.
Forward ==
  /\ sendQueue # <<>>
  /\ Head(sendQueue).due = "queued"
  /\ LET e == Head(sendQueue).event IN
       /\ forwarded' = Append(forwarded, [event |-> e, data |-> transform[e].data])
       /\ transform' = [transform EXCEPT ![e].state = "sent"]
  /\ sendQueue' = Tail(sendQueue)
  /\ UNCHANGED <<sessionVars, calls, emitted, urls, lastSave>>

\* The client emits again an object it has emitted before, at any moment: the
\* listener receives the object as the transforms so far have left it, and
\* what it writes every emission of the object sees.
Resubmit(e, name) ==
  /\ e \in DOMAIN emitted
  /\ emitted[e].name # "close"
  /\ client[emitted[e].id] \in {"created", "ready"}
  /\ Cardinality({k \in DOMAIN emitted : emitted[k].name # "close"}) < MaxEvents
  /\ Emits(emitted[e].id, name,
           Message(emitted[e].msg.msg_type, emitted[e].msg.hasData, transform[e].data),
           transform[e].object)
  /\ UNCHANGED <<sessionVars, calls>>

\* ------------------------------------------------------------- onSavePlot
\* plotServerInstance.urls.has(url)
HasUrl(url) == \E n \in 1..Len(urls) : RouteSeq[n] = url

\* plotServerInstance.urls.get(url): the temporary file behind a route.
GetUrl(url) == urls[CHOOSE n \in 1..Len(urls) : RouteSeq[n] = url].file

\* The routes a window may ask to save: the first the transform hands out, and
\* one it never does.
SavePlotUrls == {RouteSeq[1], "/elsewhere"}

\* A handler without the assertion: it would copy whatever urls.get returns.
onSavePlotUnchecked(url) ==
  /\ lastSave' = [url |-> url, outcome |-> "copied",
                  file |-> IF HasUrl(url) THEN GetUrl(url) ELSE NoFile]
  /\ UNCHANGED <<sessionVars, calls, emitted, transform, sendQueue, forwarded, urls>>

\* onSavePlot(url, filename): throws for an unknown url, else files.copy of
\* the temporary file.
onSavePlot(url) ==
  /\ lastSave' = IF HasUrl(url)
                 THEN [url |-> url, outcome |-> "copied", file |-> GetUrl(url)]
                 ELSE [url |-> url, outcome |-> "NotFound", file |-> NoFile]
  /\ UNCHANGED <<sessionVars, calls, emitted, transform, sendQueue, forwarded, urls>>

\* ------------------------------------------------------- the python client
\* kernelsPythonClient.create(options) fulfils: the then-callback attaches the
\* ready/event/error/close handlers, subscribes the main window and returns
\* kernelClients[instanceId].  When that promise was cancelled in the meantime
\* the promise of the then-callback is rejected, which its catch learns in a
\* later turn; the handlers stay attached.
CreateResolves(id) ==
  /\ client[id] = "creating"
  /\ client' = [client EXCEPT ![id] = "created"]
  /\ createRejected' = IF readiness[id] = "cancelled"
                         THEN createRejected \cup {id}
                         ELSE createRejected
  /\ UNCHANGED <<kernelClients, readiness, branches, createCalls, cuidCount,
                 lastCreate, calls, readyEmitted, eventVars>>

\* The catch-callback runs for a then-callback that returned a cancelled
\* promise: the error is logged and the entry deleted.
CreateCaught(id) ==
  /\ id \in createRejected
  /\ createRejected' = createRejected \ {id}
  /\ kernelClients' = DeleteKey(kernelClients, id)
  /\ UNCHANGED <<readiness, branches, client, createCalls, cuidCount,
                 lastCreate, calls, readyEmitted, eventVars>>

\* A catch-callback that would only log.
CreateRejectsKeepsEntry(id) ==
  /\ client[id] = "creating"
  /\ client' = [client EXCEPT ![id] = "failed"]
  /\ UNCHANGED <<kernelClients, readiness, branches, createCalls, cuidCount,
                 lastCreate, calls, readyEmitted, createRejected, eventVars>>

\* kernelsPythonClient.create(options) rejects: the catch-callback runs.
CreateRejects(id) ==
  /\ client[id] = "creating"
  /\ client' = [client EXCEPT ![id] = "failed"]
  /\ kernelClients' = DeleteKey(kernelClients, id)
  /\ UNCHANGED <<readiness, branches, createCalls, cuidCount, lastCreate, calls,
                 readyEmitted, createRejected, eventVars>>

\* resolveClient(client): settles a pending promise, a no-op on any other.
ResolveClient(state) == IF state = "pending" THEN "fulfilled" ELSE state

\* The client emits 'ready': the handler calls resolveClient(client).
ClientReady(id) ==
  /\ client[id] = "created"
  /\ client' = [client EXCEPT ![id] = "ready"]
  /\ readiness' = [readiness EXCEPT ![id] = ResolveClient(@)]
  /\ readyEmitted' = readyEmitted \cup {id}
  /\ UNCHANGED <<kernelClients, branches, createCalls, cuidCount, lastCreate, calls,
                 createRejected, eventVars>>

\* A close handler that would leave the table entry in place.
ClientCloseKeepsEntry(id) ==
  /\ client[id] \in {"created", "ready"}
  /\ client' = [client EXCEPT ![id] = "closed"]
  /\ Emits(id, "close", CloseArgs, Len(emitted) + 1)
  /\ UNCHANGED <<kernelClients, readiness, branches, createCalls, cuidCount, lastCreate,
                 calls, readyEmitted, createRejected>>

\* A close handler that would empty the table.
ClientCloseClearsTable(id) ==
  /\ client[id] \in {"created", "ready"}
  /\ client' = [client EXCEPT ![id] = "closed"]
  /\ kernelClients' = <<>>
  /\ Emits(id, "close", CloseArgs, Len(emitted) + 1)
  /\ UNCHANGED <<readiness, branches, createCalls, cuidCount, lastCreate, calls,
                 readyEmitted, createRejected>>

\* The client emits 'close': the handler registered first deletes the table
\* entry, then the window subscription's listener runs.
ClientClose(id) ==
  /\ client[id] \in {"created", "ready"}
  /\ client' = [client EXCEPT ![id] = "closed"]
  /\ kernelClients' = DeleteKey(kernelClients, id)
  /\ Emits(id, "close", CloseArgs, Len(emitted) + 1)
  /\ UNCHANGED <<readiness, branches, createCalls, cuidCount, lastCreate, calls,
                 readyEmitted, createRejected>>

\* --------------------------------------------------- per-session requests
\* A request: state is "waiting" (on the readiness promise), "invoked" (the
\* client capability was called and has not answered), "resolved", "rejected"
\* or "thrown" (the handler threw before returning a promise). Two fields keep
\* its history: early, whether it was issued while the session's client was
\* still being created or not yet ready, and reached, whether the client
\* capability was called for it.
Call(op, id, text, state, error) ==
  [op |-> op, id |-> id, text |-> text, state |-> state, error |-> error,
   early |-> id \in AllIds /\ client[id] \in {"creating", "created"},
   reached |-> FALSE]

\* getKernelInstanceById(id), and the same test in onKillKernelInstance,
\* followed by .then on what the table returned.
LookupOutcome(op, id, text) ==
  LET found == Lookup(id) IN
    IF found.kind = "undefined" THEN Call(op, id, text, "thrown", "NotFound")
    ELSE IF found.kind = "inherited" THEN Call(op, id, text, "thrown", "TypeError")
    ELSE Call(op, found.of, text, "waiting", "none")

\* A handler of execute that would look up the id without testing the text.
HandlerOutcomeWithoutTextTest(op, id, text) == LookupOutcome(op, id, text)

\* The synchronous part of each handler.
HandlerOutcome(op, id, text) ==
  IF op = "execute" /\ text = ""
  THEN Call(op, id, text, "thrown", "MissingText")
  ELSE LookupOutcome(op, id, text)

\* on<Op>(options, ...) / onKillKernelInstance(id) is called.
Request(op, id, text) ==
  /\ Len(calls) < MaxCalls
  /\ LET c == HandlerOutcome(op, id, text) IN
       /\ calls' = Append(calls, c)
       /\ branches' = IF c.state = "waiting"
                      THEN [branches EXCEPT ![c.id] = @ + 1]
                      ELSE branches
  /\ UNCHANGED <<kernelClients, readiness, client, createCalls, cuidCount, lastCreate,
                 readyEmitted, createRejected, eventVars>>

\* A handler that would call the capability without waiting for the promise.
ProceedWithoutWaiting(i) ==
  /\ i \in DOMAIN calls
  /\ calls[i].state = "waiting"
  /\ calls' = [calls EXCEPT ![i].state = "invoked", ![i].reached = TRUE]
  /\ UNCHANGED <<sessionVars, eventVars>>

\* The then-callback of a request runs with the client: the capability is called.
Proceed(i) ==
  /\ i \in DOMAIN calls
  /\ calls[i].state = "waiting"
  /\ readiness[calls[i].id] = "fulfilled"
  /\ calls' = [calls EXCEPT ![i].state = "invoked", ![i].reached = TRUE]
  /\ UNCHANGED <<sessionVars, eventVars>>

\* .then on a promise that was cancelled: bluebird rejects the late observer.
LateObserver(i) ==
  /\ i \in DOMAIN calls
  /\ calls[i].state = "waiting"
  /\ readiness[calls[i].id] = "cancelled"
  /\ calls' = [calls EXCEPT ![i].state = "rejected", ![i].error = "Cancelled"]
  /\ UNCHANGED <<sessionVars, eventVars>>

\* The client answers a capability call.
Respond(i, ok) ==
  /\ i \in DOMAIN calls
  /\ calls[i].state = "invoked"
  /\ calls' = [calls EXCEPT ![i].state = IF ok THEN "resolved" ELSE "rejected",
                            ![i].error = IF ok THEN "none" ELSE "ClientError"]
  /\ UNCHANGED <<sessionVars, eventVars>>

\* .timeout(autoCompleteTimeout * second): the request is rejected and, with
\* cancellation configured, its chain is cancelled upwards: a readiness promise
\* still pending is cancelled once every consumer it has had is cancelled.
Timeout(i) ==
  /\ i \in DOMAIN calls
  /\ calls[i].op = "getAutoComplete"
  /\ calls[i].state \in {"waiting", "invoked"}
  /\ calls' = [calls EXCEPT ![i].state = "rejected", ![i].error = "Timeout"]
  /\ LET id == calls[i].id IN
       IF calls[i].state = "waiting" /\ readiness[id] = "pending"
       THEN /\ branches' = [branches EXCEPT ![id] = @ - 1]
            /\ readiness' = [readiness EXCEPT
                               ![id] = IF branches[id] - 1 <= 0 THEN "cancelled" ELSE @]
       ELSE UNCHANGED <<branches, readiness>>
  /\ UNCHANGED <<kernelClients, client, createCalls, cuidCount, lastCreate,
                 readyEmitted, createRejected, eventVars>>

\* ------------------------------------------------------------ specification
\* The requests whose handlers differ: kill has its own lookup, getAutoComplete
\* its timeout; getStatus stands for the handlers that only look up and forward.
LifecycleOps == {"kill", "getStatus", "getAutoComplete"}

ValidOptionObjects == {o \in OptionObjects : "cmd" \in DOMAIN o /\ assertValidObject(o, KernelOptionsDefinition)}

\* Options that pass validation start a session, which the runs below allow
\* MaxSessions times.
Create ==
  \E options \in OptionObjects :
    /\ assertValidObject(options, KernelOptionsDefinition) => cuidCount < MaxSessions
    /\ onCreateKernelInstance(options)

CreateValid ==
  \E options \in ValidOptionObjects :
    /\ cuidCount < MaxSessions
    /\ onCreateKernelInstance(options)

ClientStep ==
  \E id \in InstanceIds :
    \/ CreateResolves(id)
    \/ CreateRejects(id)
    \/ ClientReady(id)
    \/ ClientClose(id)

\* Only execute looks at its text before the lookup.
Issue ==
  \E op \in Ops, id \in RequestIds, text \in Texts :
    /\ (text = "code" \/ op = "execute")
    /\ Request(op, id, text)

IssueLifecycle == \E op \in LifecycleOps, id \in InstanceIds : Request(op, id, "code")

\* The catch of a creation whose promise a timeout had cancelled.
CreateCatch == \E id \in AllIds : CreateCaught(id)

CallStep ==
  \E i \in 1..MaxCalls :
    \/ Proceed(i)
    \/ LateObserver(i)
    \/ Respond(i, TRUE)
    \/ Respond(i, FALSE)
    \/ Timeout(i)

Emit ==
  \E id \in InstanceIds, name \in EventNames, msg \in Messages : EmitEvent(id, name, msg)

PipelineStep ==
  \/ \E e \in 1..(MaxEvents + MaxSessions), field \in Fields, ok \in BOOLEAN,
        guaranteed \in BOOLEAN :
       SaveSettles(e, field, ok, guaranteed)
  \/ SaveDone
  \/ SaveFails
  \/ ReplaceSettles
  \/ RejectionPasses
  \/ ErrorLogged
  \/ TransformSettles
  \/ Forward

\* The window asks to save a plot.
SavePlot == \E url \in SavePlotUrls : onSavePlot(url)

\* A client that emits objects it has emitted before.
Reemit == \E e \in 1..MaxEvents, name \in EventNames : Resubmit(e, name)

\* Every step of the program.
Next == Create \/ ClientStep \/ CreateCatch \/ Issue \/ CallStep \/ Emit
          \/ PipelineStep \/ Reemit \/ SavePlot

Spec == Init /\ [][Next]_vars

\* Requests of every kind with options of every shape; no events but 'close'.
NextRequests == Create \/ ClientStep \/ CreateCatch \/ Issue \/ CallStep

RequestSpec == Init /\ [][NextRequests]_vars

\* A session is started while no client of an earlier one is alive.
CreateAlone ==
  /\ \A id \in InstanceIds : client[id] \in {"none", "closed", "failed"}
  /\ CreateValid

\* One session's life seen through kill, getStatus and getAutoComplete.
NextLifecycle == CreateAlone \/ ClientStep \/ CreateCatch \/ IssueLifecycle \/ CallStep

LifecycleSpec == Init /\ [][NextLifecycle]_vars

\* The event loop runs every callback that is due, every timer fires, and the
\* client process goes on: creation settles, a created client becomes ready or
\* closes, a capability that was called answers.
LifecycleFairness ==
  /\ \A id \in InstanceIds :
       /\ WF_vars(CreateResolves(id) \/ CreateRejects(id))
       /\ WF_vars(CreateCaught(id))
       /\ WF_vars(ClientReady(id) \/ ClientClose(id))
  /\ \A i \in 1..MaxCalls :
       /\ WF_vars(Proceed(i))
       /\ WF_vars(LateObserver(i))
       /\ WF_vars(Respond(i, TRUE) \/ Respond(i, FALSE))
       /\ WF_vars(Timeout(i))

FairLifecycleSpec == LifecycleSpec /\ LifecycleFairness

\* Events of clients that are ready through the transform to the window, side
\* by side; the listener is the same under every event name, so one name is
\* emitted.
EmitIopub ==
  \E id \in InstanceIds, msg \in Messages :
    /\ id \in readyEmitted
    /\ EmitEvent(id, "iopub", msg)

NextEvents == CreateValid \/ ClientStep \/ EmitIopub \/ PipelineStep

EventSpec == Init /\ [][NextEvents]_vars

\* Displays through the transform, under a single event name.
EmitDisplay ==
  \E id \in InstanceIds, msg \in Messages :
    /\ Cardinality({e \in DOMAIN emitted : emitted[e].name # "close"}) < MaxDisplays
    /\ EmitEvent(id, "iopub", msg)

\* Nothing of an event a client emitted as a message is left to save or send.
Finished(e) ==
  /\ transform[e].state \in {"sent", "dropped"}
  /\ transform[e].pending = {}
  /\ \A q \in DOMAIN sendQueue : sendQueue[q].event # e

\* A client emits a message once the messages before it are through; its
\* 'close' may come at any moment.
EmitDisplayInTurn ==
  /\ \A e \in DOMAIN emitted : emitted[e].name # "close" => Finished(e)
  /\ EmitDisplay

NextTransform == CreateAlone \/ ClientStep \/ EmitDisplayInTurn \/ PipelineStep

TransformSpec == Init /\ [][NextTransform]_vars

\* Plots saved while the displays of clients that stay up go through the
\* transform.
ClientUp == \E id \in InstanceIds : CreateResolves(id) \/ ClientReady(id)

NextPlots == CreateAlone \/ ClientUp \/ EmitDisplayInTurn \/ PipelineStep \/ SavePlot

PlotSpec == Init /\ [][NextPlots]_vars

\* Displays whose fields are saved, from a client that is ready: one is
\* emitted once each display before it is through, or a save of it has been
\* rejected and the rejection is on its way to the catch.
EmitSaved ==
  \E id \in InstanceIds, msg \in Messages :
    /\ SavesStarted(msg) # {}
    /\ id \in readyEmitted
    /\ \A e \in DOMAIN emitted :
         Finished(e) \/ (transform[e].state = "rejected" /\ transform[e].pending = {})
    /\ Cardinality({e \in DOMAIN emitted : emitted[e].name # "close"}) < MaxSaved
    /\ EmitEvent(id, "iopub", msg)

\* The callbacks that follow a save.
SaveStep ==
  \/ \E e \in 1..MaxSaved, field \in Fields, ok \in BOOLEAN, guaranteed \in BOOLEAN :
       SaveSettles(e, field, ok, guaranteed)
  \/ SaveDone
  \/ SaveFails
  \/ ReplaceSettles
  \/ RejectionPasses
  \/ ErrorLogged

NextSaves == CreateAlone \/ ClientUp \/ EmitSaved \/ SaveStep

SaveSpec == Init /\ [][NextSaves]_vars

\* Displays of clients that may emit an object again, at any moment.
NextReemit == CreateAlone \/ ClientUp \/ EmitDisplay \/ PipelineStep \/ Reemit

ReemitSpec == Init /\ [][NextReemit]_vars

\* Calls made at the boundary with options of every shape, and the sessions
\* they start; the 'close' of a session is forwarded.
NextCreation == Create \/ ClientStep \/ SavePlot \/ Forward

CreationSpec == Init /\ [][NextCreation]_vars

\* Requests to execute alone, with and without text, for ids of every kind:
\* no timeout is armed, so no promise is ever cancelled.
IssueExecute == \E id \in RequestIds, text \in Texts : Request("execute", id, text)

ExecuteStep ==
  \E i \in 1..MaxCalls :
    \/ Proceed(i)
    \/ Respond(i, TRUE)
    \/ Respond(i, FALSE)

NextExecute == CreateValid \/ ClientStep \/ IssueExecute \/ ExecuteStep

ExecuteSpec == Init /\ [][NextExecute]_vars

\* kill() has been called on the client of a session.
KillInvoked(id) ==
  \E i \in DOMAIN calls : calls[i].op = "kill" /\ calls[i].id = id /\ calls[i].reached

\* A window that asks for the status or a completion of a session only once
\* kill() has been called on its client; the promise is fulfilled by then, so
\* no timeout can cancel it.
IssueKill == \E id \in InstanceIds : Request("kill", id, "code")

IssueAfterKill ==
  \E op \in {"getStatus", "getAutoComplete"}, id \in InstanceIds :
    /\ KillInvoked(id)
    /\ Request(op, id, "code")

AnswerStep ==
  \E i \in 1..MaxCalls :
    \/ Proceed(i)
    \/ Respond(i, TRUE)
    \/ Respond(i, FALSE)
    \/ Timeout(i)

NextKill == CreateValid \/ ClientStep \/ IssueKill \/ IssueAfterKill \/ AnswerStep

KillSpec == Init /\ [][NextKill]_vars

\* Sessions side by side: one more than elsewhere, each started with the same
\* options and with its own client, and kill and getAutoComplete requests for
\* any of them.
CreatePeer == onCreateKernelInstance([cmd |-> "string"])

ClientStepOfAny ==
  \E id \in AllIds :
    \/ CreateResolves(id)
    \/ CreateRejects(id)
    \/ ClientReady(id)
    \/ ClientClose(id)

IssueIsolated ==
  \E op \in {"kill", "getAutoComplete"}, id \in AllIds :
    /\ Len(calls) < MaxIsolationCalls
    /\ Request(op, id, "code")

NextIsolation == CreatePeer \/ ClientStepOfAny \/ CreateCatch \/ IssueIsolated
                   \/ AnswerStep

IsolationSpec == Init /\ [][NextIsolation]_vars

\* ------------------------------------------------------------------ claims
Settled(c) == c.state \in {"resolved", "rejected", "thrown"}

\* The request a step has just appended.
Issued == calls'[Len(calls')]
IsRequestStep == Len(calls') = Len(calls) + 1

\* C1: onCreateKernelInstance called with options that have no cmd fails with
\* InvalidArgument, starts no client creation and adds no entry to the table.
C1_MissingCmdRefused ==
  [][\A options \in OptionObjects :
       ("cmd" \notin DOMAIN options /\ onCreateKernelInstance(options))
         => /\ lastCreate'.outcome = "InvalidArgument"
            /\ UNCHANGED <<kernelClients, createCalls, client>>]_vars

\* C2: whenever onCreateKernelInstance yields an id, at that moment the id is
\* a key of the table mapped to its own readiness promise, that promise is
\* pending, the client is still under construction and has not emitted 'ready'.
C2_IdYieldedBeforeReady ==
  [][(lastCreate' # lastCreate /\ lastCreate'.outcome = "id")
       => LET id == lastCreate'.id IN
            /\ id \in DOMAIN kernelClients'
            /\ kernelClients'[id] = id
            /\ readiness'[id] = "pending"
            /\ client'[id] = "creating"
            /\ id \notin readyEmitted']_vars

C2_Witness ==
  /\ lastCreate.outcome = "id"
  /\ lastCreate.id \in DOMAIN kernelClients
  /\ readiness[lastCreate.id] = "pending"
  /\ client[lastCreate.id] = "creating"

\* C3: a request of any kind, with the arguments its handler requires, for an
\* id that is not in the table fails with NotFound, and no client capability is
\* called for it.
C3_UnknownIdNotFound ==
  [][\A op \in Ops, id \in RequestIds :
       (id \notin DOMAIN kernelClients /\ Request(op, id, "code"))
         => /\ Issued.state = "thrown"
            /\ Issued.error = "NotFound"
            /\ ~Issued.reached]_vars

\* C4: once a kill request has settled because the client's kill() rejected,
\* the session's entry is gone from the table.
C4_FailedKillRemovesEntry ==
  \A i \in DOMAIN calls :
    (calls[i].op = "kill" /\ calls[i].state = "rejected" /\ calls[i].error = "ClientError")
      => calls[i].id \notin DOMAIN kernelClients

\* C5: after a kill request for an id has resolved, the id is not in the table
\* and every later request for that id fails with NotFound.
C5_AfterKillNotFound ==
  [][\A i \in DOMAIN calls :
       (calls[i].op = "kill" /\ calls[i].state = "resolved")
         => /\ calls[i].id \notin DOMAIN kernelClients
            /\ (IsRequestStep /\ Issued.id = calls[i].id)
                 => (Issued.state = "thrown" /\ Issued.error = "NotFound")]_vars

\* C6: a request that is waiting on the readiness promise of a session whose
\* client construction has rejected is eventually rejected.
C6_WaitersReceiveFailure ==
  \A i \in 1..MaxCalls :
    (i \in DOMAIN calls /\ calls[i].state = "waiting" /\ client[calls[i].id] = "failed")
      ~> (i \in DOMAIN calls /\ calls[i].state = "rejected")

\* C7: once client construction for an id has rejected, the id is no longer in
\* the table, a lookup of it finds nothing, and creation was attempted once.
C7_FailedConstructionRemoved ==
  \A id \in InstanceIds :
    client[id] = "failed"
      => /\ id \notin DOMAIN kernelClients
         /\ Lookup(id).kind = "undefined"
         /\ createCalls[id] = 1

C7_Witness == \E id \in InstanceIds : client[id] = "failed" /\ createCalls[id] = 1

\* C8: a kill request issued while the session is still being created (its id
\* yielded, its client not yet ready) is not refused with NotFound but waits on
\* the readiness promise; and kill() is called on a client only once that
\* client has emitted 'ready'.
C8_KillBeforeReadyWaits ==
  \A i \in DOMAIN calls :
    calls[i].op = "kill"
      => /\ calls[i].early => (calls[i].state # "thrown" /\ calls[i].error # "NotFound")
         /\ (calls[i].early /\ calls[i].id \notin readyEmitted) => calls[i].state = "waiting"
         /\ calls[i].reached => calls[i].id \in readyEmitted

\* C9: every kill request that passed the lookup eventually settles.
C9_KillSettles ==
  \A i \in 1..MaxCalls :
    (i \in DOMAIN calls /\ calls[i].op = "kill" /\ calls[i].state \in {"waiting", "invoked"})
      ~> (i \in DOMAIN calls /\ Settled(calls[i]))

\* C10: of two events emitted by the same client, the later one is never
\* forwarded while the earlier one has not been forwarded.
WasForwarded(e) == \E k \in DOMAIN forwarded : forwarded[k].event = e

C10_ForwardedInOrder ==
  \A e1, e2 \in DOMAIN emitted :
    (e1 < e2 /\ emitted[e1].id = emitted[e2].id /\ WasForwarded(e2))
      => WasForwarded(e1)

\* The message the client emitted as event e, and whether the transform
\* replaces fields of it.
Original(e) == emitted[e].msg
IsDisplay(msg) == msg.msg_type = "display_data" /\ msg.hasData

\* A value is one of the routes addRouteToFile hands out.
IsRouteKey(value) == \E n \in DOMAIN RouteSeq : RouteSeq[n] = value

\* C11: an event is sent only once every save of its transform has settled,
\* and in every display_data event sent, each of text/html, image/png and
\* image/svg that the client emitted non-empty holds a route.
C11_ForwardedFieldsAreRoutes ==
  \A k \in DOMAIN forwarded :
    LET e == forwarded[k].event IN
      /\ transform[e].saving = {}
      /\ IsDisplay(Original(e))
           => \A f \in Fields \cap DOMAIN Original(e).data :
                Truthy(Original(e).data[f]) => IsRouteKey(forwarded[k].data[f])

\* C12: when an object is emitted whose text/html, image/png or image/svg
\* already holds a route, no save is started for that field and its
\* value stays what it was.
C12_TransformIdempotent ==
  \A e \in DOMAIN emitted :
    \A f \in Fields \cap DOMAIN Original(e).data :
      IsRouteKey(Original(e).data[f])
        => /\ f \notin transform[e].saving
           /\ transform[e].data[f] = Original(e).data[f]

\* C13: an event is sent with exactly the fields the client emitted, an empty
\* field keeps its value, an event that is not display_data or has no data is
\* sent as emitted, and every file written and route registered belongs to a
\* non-empty field of a display_data event.
C13_NoFieldAdded ==
  /\ \A k \in DOMAIN forwarded :
       LET original == Original(forwarded[k].event)
           sent == forwarded[k].data
       IN /\ DOMAIN sent = DOMAIN original.data
          /\ \A f \in DOMAIN original.data :
               ~Truthy(original.data[f]) => sent[f] = original.data[f]
          /\ ~IsDisplay(original) => sent = original.data
  /\ \A n \in DOMAIN urls :
       LET original == Original(urls[n].file[1])
           field == urls[n].file[2]
       IN /\ IsDisplay(original)
          /\ field \in DOMAIN original.data
          /\ Truthy(original.data[field])

C13_Witness ==
  /\ urls = <<>>
  /\ \E k \in DOMAIN forwarded :
       /\ Original(forwarded[k].event).msg_type = "execute_result"
       /\ forwarded[k].data = [x \in {"text/html"} |-> "<p>"]

\* C14: for a display_data event emitted with base64 text in image/png, the
\* image/png sent is a registered route, the route maps to the file written for
\* that field of that event, and the file holds the decoded bytes.
C14_PngRouteServesDecodedBytes ==
  \A k \in DOMAIN forwarded :
    LET e == forwarded[k].event
        original == Original(e)
    IN (/\ IsDisplay(original)
        /\ "image/png" \in DOMAIN original.data
        /\ Truthy(original.data["image/png"]))
         => LET route == forwarded[k].data["image/png"] IN
              /\ HasUrl(route)
              /\ GetUrl(route) = <<e, "image/png">>
              /\ \A n \in DOMAIN urls :
                   RouteSeq[n] = route
                     => /\ urls[n].extension = ".png"
                        /\ urls[n].content = Base64Decode(original.data["image/png"])

\* C15: a getAutoComplete request that passed the lookup and that the client
\* has not answered is rejected with Timeout and with nothing else, and once
\* settled it never changes again nor is handed to the client again.
C15_AutoCompleteTimesOut ==
  [][\A i \in DOMAIN calls' :
       /\ (/\ calls'[i].op = "getAutoComplete"
           /\ calls'[i].state = "rejected"
           /\ calls'[i].error # "ClientError")
            => calls'[i].error = "Timeout"
       /\ (i \in DOMAIN calls /\ Settled(calls[i])) => calls'[i] = calls[i]]_vars

\* C16: the timeout of a getAutoComplete request leaves the table, the stored
\* promise and the client as they were, and no request for an id of the table
\* is ever turned away without reaching the client.
C16_TimeoutLeavesSessionUsable ==
  [][/\ \A i \in 1..MaxCalls :
          Timeout(i) => UNCHANGED <<kernelClients, readiness, client>>
     /\ \A j \in DOMAIN calls' : calls'[j].error # "Cancelled"]_vars

\* C17 as stated: once a client has emitted 'close' and its entry is gone from
\* the table, its close event has already been sent to the window.
C17_CloseForwardedBeforeRemoval ==
  \A e \in DOMAIN emitted :
    (emitted[e].name = "close" /\ emitted[e].id \notin DOMAIN kernelClients)
      => WasForwarded(e)

\* C17 amended: when a client has emitted 'close' its entry is gone from the
\* table and its close event is queued for the window or sent, never dropped;
\* the entry is already gone when the close event is sent.
C17_CloseRemovedThenForwarded ==
  /\ \A id \in InstanceIds :
       client[id] = "closed"
         => /\ id \notin DOMAIN kernelClients
            /\ \E e \in DOMAIN emitted :
                 /\ emitted[e].id = id
                 /\ emitted[e].name = "close"
                 /\ transform[e].state \in {"queued", "sent"}
  /\ \A k \in DOMAIN forwarded :
       emitted[forwarded[k].event].name = "close"
         => emitted[forwarded[k].event].id \notin DOMAIN kernelClients

C17_Witness ==
  \E k \in DOMAIN forwarded :
    /\ emitted[forwarded[k].event].name = "close"
    /\ client[emitted[forwarded[k].event].id] = "closed"
    /\ emitted[forwarded[k].event].id \notin DOMAIN kernelClients

\* C18: the capability of a request is called only on a client that has
\* emitted 'ready', and a request whose capability was called and has not
\* answered belongs to a session whose promise was fulfilled.
C18_NoCapabilityBeforeReady ==
  \A i \in DOMAIN calls :
    /\ calls[i].reached => calls[i].id \in readyEmitted
    /\ calls[i].state = "invoked" => readiness[calls[i].id] = "fulfilled"

C18_Witness ==
  \E i \in DOMAIN calls :
    /\ calls[i].early
    /\ calls[i].reached
    /\ calls[i].id \in readyEmitted

\* C19: onSavePlot for a url that is not registered fails with NotFound and
\* copies nothing; for a registered url it copies the file written for the
\* field that was rewritten to that url.
C19_SavePlotCopiesMappedFile ==
  [][\A url \in SavePlotUrls :
       onSavePlot(url)
         => IF HasUrl(url)
            THEN /\ lastSave'.outcome = "copied"
                 /\ \A e \in DOMAIN transform :
                      \A f \in DOMAIN transform[e].data :
                        transform[e].data[f] = url => lastSave'.file = <<e, f>>
            ELSE /\ lastSave'.outcome = "NotFound"
                 /\ lastSave'.file = NoFile]_vars

C19_Witness ==
  /\ lastSave.outcome = "copied"
  /\ \E k \in DOMAIN forwarded :
       \E f \in DOMAIN forwarded[k].data :
         /\ forwarded[k].data[f] = lastSave.url
         /\ lastSave.file = <<forwarded[k].event, f>>

\* Options with a cmd or cwd that is not a string, or with any other property.
Malformed(options) ==
  \/ (DOMAIN options) \ {"cmd", "cwd"} # {}
  \/ \E key \in {"cmd", "cwd"} \cap DOMAIN options : options[key] # "string"

\* C20: onCreateKernelInstance called with malformed options fails with
\* InvalidArgument, yields no id, draws none, leaves the table as it was and
\* starts no client creation.
C20_MalformedOptionsRefused ==
  [][\A options \in OptionObjects :
       (Malformed(options) /\ onCreateKernelInstance(options))
         => /\ lastCreate'.outcome = "InvalidArgument"
            /\ lastCreate'.id = ""
            /\ UNCHANGED <<kernelClients, readiness, client, createCalls, cuidCount>>]_vars

C20_Witness ==
  /\ lastCreate.outcome = "InvalidArgument"
  /\ Malformed(lastCreate.options)
  /\ "env" \in DOMAIN lastCreate.options

\* The session whose client emitted what was sent as the k-th message.
SenderOf(k) == emitted[forwarded[k].event].id

\* C21 as stated: every event sent to the window comes from a client that has
\* emitted 'ready'.
C21_ForwardedOnlyOnceReady == \A k \in DOMAIN forwarded : SenderOf(k) \in readyEmitted

\* An event is on its way: a save of it has not settled, or a callback of it
\* is due.
InProgress(e) ==
  \/ transform[e].pending # {}
  \/ \E q \in DOMAIN sendQueue : sendQueue[q].event = e

\* C21 amended: the window is subscribed when create() hands the client over,
\* not when the client is ready: every event a client emits, before its
\* 'ready' as after it, is taken up by the window's listener when emitted, and
\* until it is sent or its error logged it waits on its own saves and
\* callbacks alone, never on 'ready' or the readiness promise.
C21_TakenUpOnceHandedOver ==
  \A e \in DOMAIN emitted :
    /\ transform[e].state # "unheard"
    /\ transform[e].state \notin {"sent", "dropped"} => InProgress(e)

C21_Witness ==
  \E k \in DOMAIN forwarded :
    /\ emitted[forwarded[k].event].name # "close"
    /\ client[SenderOf(k)] = "created"
    /\ SenderOf(k) \notin readyEmitted
    /\ readiness[SenderOf(k)] = "pending"

\* C22: a request to execute with empty text throws at once for an id of any
\* kind, in the table or not: no capability is called for it, the table and
\* its promises stay as they were, and a request that threw never changes.
C22_EmptyTextRefused ==
  [][/\ \A id \in RequestIds :
          Request("execute", id, "")
            => /\ Issued.state = "thrown"
               /\ Issued.error = "MissingText"
               /\ ~Issued.reached
               /\ UNCHANGED <<kernelClients, readiness, branches, client>>
     /\ \A i \in DOMAIN calls :
          calls[i].state = "thrown" => calls'[i] = calls[i]]_vars

C22_Witness ==
  \E i \in DOMAIN calls :
    /\ calls[i].op = "execute"
    /\ calls[i].text = ""
    /\ calls[i].id \in DOMAIN kernelClients
    /\ calls[i].state = "thrown"
    /\ ~calls[i].reached

\* C23: where requests other than kill are issued for a session only after
\* kill() has been called on its client, no capability is ever called for them.
C23_NothingForwardedAfterKill ==
  \A j \in DOMAIN calls : calls[j].op # "kill" => ~calls[j].reached

\* C24: an event is sent at most once; an event of which a save was rejected
\* is never sent, neither while the rejection is on its way to the catch nor
\* once it is logged, so every event sent has a file registered for each save
\* it started; and an event whose transform has settled is in the queue to be
\* sent whatever became of the events before it.
C24_SentAtMostOnceOrDropped ==
  \A e \in DOMAIN emitted :
    /\ Cardinality({k \in DOMAIN forwarded : forwarded[k].event = e}) <= 1
    /\ transform[e].state \in {"rejected", "dropped"} => ~WasForwarded(e)
    /\ WasForwarded(e)
         => \A f \in SavesStarted(Original(e)) :
              \E n \in DOMAIN urls : urls[n].file = <<e, f>>
    /\ transform[e].state \in {"settling", "queued"}
         => \E q \in DOMAIN sendQueue :
              sendQueue[q].event = e /\ sendQueue[q].due = transform[e].state

C24_Witness ==
  \E e1, e2 \in DOMAIN emitted :
    /\ e1 < e2
    /\ emitted[e1].id = emitted[e2].id
    /\ transform[e1].state = "dropped"
    /\ ~WasForwarded(e1)
    /\ emitted[e2].name # "close"
    /\ SavesStarted(Original(e2)) # {}
    /\ WasForwarded(e2)

\* What the table holds for an id: whether it is a key, and the state of the
\* promise stored under it.
Entry(table, promises, id) ==
  [present |-> id \in DOMAIN table,
   state |-> IF id \in DOMAIN table THEN promises[table[id]] ELSE "none"]

\* A step leaves the entry of an id as it was.
EntryKept(id) ==
  Entry(kernelClients', readiness', id) = Entry(kernelClients, readiness, id)

\* C25: the id a creation yields is not a key of the table as it was, and the
\* creation leaves every entry of the table as it was; a close, a construction
\* that fulfils or is rejected, the catch that follows a construction whose
\* promise was cancelled, and the call, answer or timeout of a request of one
\* session leave the entry of every other session as it was.
C25_SessionsIsolated ==
  [][/\ (lastCreate' # lastCreate /\ lastCreate'.outcome = "id")
          => /\ lastCreate'.id \notin DOMAIN kernelClients
             /\ \A other \in DOMAIN kernelClients : EntryKept(other)
     /\ \A id \in AllIds :
          (\/ ClientClose(id)
           \/ CreateResolves(id)
           \/ CreateCaught(id)
           \/ CreateRejects(id)
           \/ \E i \in DOMAIN calls :
                /\ calls[i].id = id
                /\ (Proceed(i) \/ Respond(i, TRUE) \/ Respond(i, FALSE) \/ Timeout(i)))
            => \A other \in AllIds \ {id} : EntryKept(other)]_vars

C25_Witness ==
  \E id, other \in AllIds :
    /\ id # other
    /\ client[id] \in {"closed", "failed"}
    /\ id \notin DOMAIN kernelClients
    /\ other \in DOMAIN kernelClients
    /\ \E i \in DOMAIN calls : calls[i].id = other /\ calls[i].error = "Timeout"

====
